---- MODULE Spec2Model ----
(***************************************************************************)
(* kuja: an RPC server over HTTP.  A model of Server (its setup calls, its *)
(* discovery lifecycle start/stop, and ServeHTTP with serve and respError) *)
(* and of the pooled per-request Ctx.                                      *)
(*                                                                         *)
(* Strings the code inspects byte by byte (the URL path, service and       *)
(* method names) are sequences of one-character strings.  A response body  *)
(* is a sequence of strings, so that "prefix" + name is a concatenation.   *)
(***************************************************************************)
EXTENDS Integers, Sequences, FiniteSets, Bags, TLC

VARIABLES
    phase,       \* "setup" | "serving" | "stopped": position of Run
    serviceMap,  \* Server.serviceMap: name -> service
    snappy,      \* Server.snappy
    registry,    \* Server.registry: "nil" or the discovery collaborator
    encoder,     \* Server.encoder: the codec
    regCalls,    \* Register calls received by the collaborator (a bag)
    deregCalls,  \* Deregister calls received by the collaborator (a bag)
    pool,        \* Server.pool: the contexts the pool holds
    ctxs,        \* the Ctx objects by identity; Garbage where none is allocated
    rq,          \* per worker: the request being served and what was done for it
    tasks,       \* number of detached `go ctx.logError(...)` tasks not yet run
    nreq,        \* requests accepted so far
    fn           \* a call of a pure function under study: its input and result

vars == <<phase, serviceMap, snappy, registry, encoder, regCalls, deregCalls,
          pool, ctxs, rq, tasks, nreq, fn>>

srvVars == <<serviceMap, snappy, registry, encoder>>

----------------------------------------------------------------------------
(* Bounds *)

MaxRequests == 3      \* requests accepted in one run

Workers == {"w1", "w2"}   \* goroutines of the HTTP listener serving requests

\* the worker of a listener that serves one request at a time
SeqWorkers == {"w1"}

\* Identities of Ctx objects.  pool.New runs only when the pool has nothing to
\* give, so the contexts alive (held by a request or kept by the pool) are
\* never more than the workers; the memory of a dead one is reused (pool.New
\* takes the lowest identity no live context has).
CtxIds == 1..Cardinality(Workers)

----------------------------------------------------------------------------
(* Values *)

Str(s) == <<s>>

NilErr == [kind |-> "nil", status |-> 0, msg |-> ""]

\* Error(status, msg): an error implementing Errors (it carries a status)
Error(status, msg) == [kind |-> "Errors", status |-> status, msg |-> msg]

\* any other error value
PlainError(msg) == [kind |-> "error", status |-> 0, msg |-> msg]

EmptyMap == [k \in {} |-> ""]

\* the map with the single entry k -> v
Entry(k, v) == [x \in {k} |-> v]

\* m[k] = v for every k of the domain of `upd`, the rest of m kept
MapSetAll(m, upd) ==
    [k \in (DOMAIN m) \cup (DOMAIN upd) |-> IF k \in DOMAIN upd THEN upd[k] ELSE m[k]]

\* The services a program may register: receiver, its eligible methods and
\* the middleware given to Service.
Catalogue ==
    [a |-> [name |-> <<"a">>, methods |-> {<<"m">>, <<"n">>}, h |-> <<>>],
     b |-> [name |-> <<"b">>, methods |-> {<<"m">>}, h |-> <<"h1", "h2">>]]

ServiceKeys == DOMAIN Catalogue

\* Discovery collaborators.  "flaky" returns an error from every call for
\* service a and nil from the others.
Registries == {"flaky"}

Addrs == { <<"h", ":", "8", "0">> }   \* listen addresses given to Run

\* what one middleware invocation does
Behaviours == {"next", "abort", "skip", "nextErr"}

HttpMethods == {"POST", "GET"}

Paths ==
    { <<"/", "a", "/", "m", "/">>,      \* known service, known method
      <<"/", "b", "/", "m">>,           \* service with middleware
      <<"/", "a", "/", "x">>,           \* unknown method
      <<"/", "c", "/", "m">>,           \* unknown service
      <<"/", "a">>,                     \* no second segment
      <<"/", "a", "/", "/">> }          \* empty method segment

\* req.Header: name -> list of values
Headers ==
    { EmptyMap,
      Entry("H1", <<"v1", "v2">>) }

\* Response metadata a method may set through its context
RespMetas == { EmptyMap, Entry("R1", "r1") }

----------------------------------------------------------------------------
(* Ctx and the per-request record *)

\* an identity no live Ctx has
Garbage == [live |-> FALSE]

\* pool.New.  ctx.req, ctx.w, ctx.encoder and ctx.returnValues are not fields of
\* the model: the code assigns each before it reads it, the request and the
\* response writer are the worker's record rq[w], the codec is the
\* collaborator whose results Outcomes draws.
NewCtx ==
    [live |-> TRUE,
     ReqMetadata |-> EmptyMap, RespMetadata |-> EmptyMap, isResp |-> FALSE,
     handlers |-> <<>>, mt |-> <<>>, rcvr |-> <<>>, encoder |-> "", snappy |-> FALSE,
     ServiceID |-> <<>>, ServiceName |-> <<>>, MethodName |-> <<>>]

\* A worker's request and what the code did for it.  The fields from `writes`
\* on record what happened while the request was served.
IdleReq ==
    [pc |-> "idle", method |-> "", path |-> <<>>, header |-> EmptyMap,
     ctx |-> 0, recycled |-> FALSE, puts |-> 0,
     writes |-> <<>>, outHeader |-> EmptyMap, sentHdr |-> <<>>,
     mwRun |-> <<>>, mwErr |-> FALSE, serves |-> 0, decodes |-> 0,
     calls |-> <<>>, ret |-> NilErr, fail |-> "",
     audits |-> <<>>, err |-> NilErr]

\* w.WriteHeader(status): the status goes out with the headers set so far
\* (sentHdr); a header set later is not part of the response
WriteHeader(r, status) ==
    [r EXCEPT !.writes = Append(@, [status |-> status, body |-> <<>>]),
              !.sentHdr = Append(@, r.outHeader)]

\* w.Write(data) after a WriteHeader
Write(r, data) ==
    [r EXCEPT !.writes[Len(r.writes)].body = @ \o data]

\* w.Header().Set(name, val)
HeaderSet(r, name, val) ==
    [r EXCEPT !.outHeader = MapSetAll(@, Entry(name, val))]

----------------------------------------------------------------------------
(* Setup *)

\* no call of a pure function is under study
NoCall == [op |-> "none"]

\* the server NewServer returns, before any setup call
ServerInit ==
    /\ phase = "setup"
    /\ serviceMap = EmptyMap
    /\ snappy = FALSE
    /\ registry = "nil"
    /\ encoder = "json"
    /\ regCalls = EmptyBag
    /\ deregCalls = EmptyBag
    /\ pool = {}
    /\ ctxs = [id \in CtxIds |-> Garbage]
    /\ rq = [w \in Workers |-> IdleReq]
    /\ tasks = 0
    /\ nreq = 0

Init ==
    /\ ServerInit
    /\ fn = NoCall

Snappy(enable) ==
    /\ phase = "setup"
    /\ snappy' = enable
    /\ UNCHANGED <<fn, encoder, phase, serviceMap, registry, regCalls, deregCalls,
                   pool, ctxs, rq, tasks, nreq>>

Registry(r) ==
    /\ phase = "setup"
    /\ registry' = r
    /\ UNCHANGED <<fn, encoder, phase, serviceMap, snappy, regCalls, deregCalls,
                   pool, ctxs, rq, tasks, nreq>>

\* the codecs Encoder may install in place of the json one of NewServer
Encoders == {"gogoproto"}

Encoder(enc) ==
    /\ phase = "setup"
    /\ encoder' = enc
    /\ UNCHANGED <<fn, phase, serviceMap, snappy, registry, regCalls, deregCalls,
                   pool, ctxs, rq, tasks, nreq>>

\* server.register(service, "", false, h): the service descriptor.  No
\* server-level middleware is installed (Use is not called), so the handlers of
\* the service are the ones given to Service.
NewService(k) ==
    [id |-> <<"id">> \o Catalogue[k].name,
     name |-> Catalogue[k].name,
     rcvr |-> <<"rcvr">> \o Catalogue[k].name,
     method |-> Catalogue[k].methods,
     handlers |-> Catalogue[k].h]

Service(k) ==
    /\ phase = "setup"
    /\ Catalogue[k].name \notin DOMAIN serviceMap
    /\ serviceMap' = MapSetAll(serviceMap, Entry(Catalogue[k].name, NewService(k)))
    /\ UNCHANGED <<fn, encoder, phase, snappy, registry, regCalls, deregCalls,
                   pool, ctxs, rq, tasks, nreq>>

----------------------------------------------------------------------------
(* Discovery lifecycle: Run, start, stop *)

RECURSIVE SeqToBag(_)
SeqToBag(q) ==
    IF q = <<>> THEN EmptyBag ELSE SetToBag({Head(q)}) (+) SeqToBag(Tail(q))

\* the orders in which `range server.serviceMap` may visit the services
Orders(m) ==
    { q \in [1..Cardinality(DOMAIN m) -> DOMAIN m] :
        \A i, j \in DOMAIN q : i # j => q[i] # q[j] }

\* index of the last ":" of addr, 0 when it has none
LastColon(addr) ==
    LET cs == { i \in 1..Len(addr) : addr[i] = ":" }
    IN IF cs = {} THEN 0 ELSE CHOOSE i \in cs : \A j \in cs : j <= i

\* host of start: strings.Join(parts[:len(parts)-1], ":"), or parts[0]
HostOf(addr) ==
    IF LastColon(addr) > 0 THEN SubSeq(addr, 1, LastColon(addr) - 1) ELSE addr

\* port of start: parts[len(parts)-1], or ""
PortOf(addr) ==
    IF LastColon(addr) > 0 THEN SubSeq(addr, LastColon(addr) + 1, Len(addr)) ELSE <<>>

\* what the collaborator returns from Register and Deregister
RegistryResult(r, name) ==
    IF r = "flaky" /\ name = <<"a">> THEN PlainError("registry unavailable") ELSE NilErr

\* start and stop after a call returned err: log it, go on with the next service
LoopStopsOnErrorMut(err) == err = NilErr
LoopContinues(err) == TRUE

\* the Register calls of start's loop visiting the services in `order`, from i on
RECURSIVE RegisterLoop(_, _, _)
RegisterLoop(order, i, addr) ==
    IF i > Len(order) THEN <<>>
    ELSE LET service == serviceMap[order[i]]
             node == [Id |-> service.id, Name |-> service.name,
                      Host |-> HostOf(addr), Port |-> PortOf(addr), Address |-> addr]
             err == RegistryResult(registry, service.name)
         IN <<[node |-> node, err |-> err]>>
              \o (IF LoopContinues(err) THEN RegisterLoop(order, i + 1, addr) ELSE <<>>)

\* server.start(addr): the calls it makes
start(order, addr) ==
    IF registry = "nil" THEN <<>> ELSE RegisterLoop(order, 1, addr)

\* the Deregister calls of stop's loop
RECURSIVE DeregisterLoop(_, _)
DeregisterLoop(order, i) ==
    IF i > Len(order) THEN <<>>
    ELSE LET service == serviceMap[order[i]]
             err == RegistryResult(registry, service.name)
         IN <<[name |-> service.name, id |-> service.id, err |-> err]>>
              \o (IF LoopContinues(err) THEN DeregisterLoop(order, i + 1) ELSE <<>>)

\* server.stop(): the calls it makes
stop(order) ==
    IF registry # "nil" THEN DeregisterLoop(order, 1) ELSE <<>>

\* Run / RunTLS: start(addr), then the listener serves
RunListensFirstMut(addr) ==
    /\ phase = "setup"
    /\ phase' = "serving"
    /\ UNCHANGED <<fn, encoder, serviceMap, snappy, registry, regCalls, deregCalls,
                   pool, ctxs, rq, tasks, nreq>>
Run(addr) ==
    /\ phase = "setup"
    /\ \E order \in Orders(serviceMap) :
         regCalls' = regCalls (+) SeqToBag(start(order, addr))
    /\ phase' = "serving"
    /\ UNCHANGED <<fn, encoder, serviceMap, snappy, registry, deregCalls,
                   pool, ctxs, rq, tasks, nreq>>

\* ShutdownInitiated: server.stop(); requests in flight are still served
Shutdown ==
    /\ phase = "serving"
    /\ \E order \in Orders(serviceMap) :
         deregCalls' = deregCalls (+) SeqToBag(stop(order))
    /\ phase' = "stopped"
    /\ UNCHANGED <<fn, encoder, serviceMap, snappy, registry, regCalls,
                   pool, ctxs, rq, tasks, nreq>>

----------------------------------------------------------------------------
(* Routing *)

\* getServiceMethod(s): <<service, method>>
getServiceMethodLastSlashMut(s) ==
    LET s1 == IF Len(s) >= 1 /\ s[1] = "/" THEN SubSeq(s, 2, Len(s)) ELSE s
        s2 == IF Len(s1) >= 1 /\ s1[Len(s1)] = "/" THEN SubSeq(s1, 1, Len(s1) - 1) ELSE s1
        sl == { i \in 1..Len(s2) : s2[i] = "/" }
    IN IF sl = {} THEN << <<>>, <<>> >>
       ELSE LET i == CHOOSE k \in sl : \A j \in sl : k >= j
            IN << SubSeq(s2, 1, i - 1), SubSeq(s2, i + 1, Len(s2)) >>
getServiceMethod(s) ==
    LET s1 == IF Len(s) >= 1 /\ s[1] = "/" THEN SubSeq(s, 2, Len(s)) ELSE s
        s2 == IF Len(s1) >= 1 /\ s1[Len(s1)] = "/" THEN SubSeq(s1, 1, Len(s1) - 1) ELSE s1
        sl == { i \in 1..Len(s2) : s2[i] = "/" }
    IN IF sl = {} THEN << <<>>, <<>> >>
       ELSE LET i == CHOOSE k \in sl : \A j \in sl : k <= j
            IN << SubSeq(s2, 1, i - 1), SubSeq(s2, i + 1, Len(s2)) >>

----------------------------------------------------------------------------
(* Core dispatch: serve, the middleware chain, respError *)

\* reply record filled by the method mt of receiver rcvr
Reply(rcvr, mt) == <<"reply">> \o rcvr \o Str(".") \o mt[2]

\* encoder.Marshal(v), snappy.Encode(nil, data), encoder.Encode(w, v): the bytes
Marshal(v) == <<"marshal">> \o v
SnappyEncode(data) == <<"snappy">> \o data
Encode(v) == <<"stream">> \o v

MethodErrors == { Error(403, "forbidden"), PlainError("boom") }
MiddlewareErrors == { Error(401, "unauthorized") }

\* What the collaborators of one dispatch do: whether Decode, Marshal,
\* snappy.Encode and Encode succeed, what the method returns and which response
\* metadata it sets, what each middleware of the chain does.
Outcomes(n) ==
    LET base == [decode : BOOLEAN, ret : {NilErr} \cup MethodErrors, meta : RespMetas,
                 build : {"ok", "marshal", "compress", "encode"},
                 mw : [1..n -> Behaviours], mwErr : MiddlewareErrors]
    IN { o \in base :
           /\ ~o.decode => (o.ret = NilErr /\ o.meta = EmptyMap)
           /\ (~o.decode \/ o.ret # NilErr) => o.build = "ok" }

\* the response-already-sent flag is set
MarkSent(c) == [c EXCEPT !.isResp = TRUE]

\* for name, val := range ctx.RespMetadata { ctx.w.Header().Set(name, val) }
CopyRespMetadataMut(c, r) == r
CopyRespMetadata(c, r) == [r EXCEPT !.outHeader = MapSetAll(@, c.RespMetadata)]

\* serve, from the point where the method has returned nil
serveReply(e, o) ==
    LET c == e.c
        r == CopyRespMetadata(c, e.r)
        reply == Reply(c.rcvr, c.mt)
    IN IF c.snappy
       THEN IF o.build = "marshal"
            THEN [c |-> c, r |-> [r EXCEPT !.fail = "marshal"],
                  err |-> PlainError("marshal failed")]
            ELSE IF o.build = "compress"
            THEN [c |-> c, r |-> [r EXCEPT !.fail = "compress"],
                  err |-> PlainError("compress failed")]
            ELSE [c |-> MarkSent(c),
                  r |-> Write(WriteHeader(HeaderSet(r, "Snappy", "true"), 200),
                              SnappyEncode(Marshal(reply))),
                  err |-> NilErr]
       ELSE [c |-> MarkSent(c),
             r |-> IF o.build = "encode"
                   THEN [WriteHeader(r, 200) EXCEPT !.fail = "encode"]
                   ELSE Write(WriteHeader(r, 200), Encode(reply)),
             err |-> NilErr]

\* function.Call(rcvr, context, argv, replyv): the method bound to ctx.mt runs
\* on ctx.rcvr, once
InvokeTwiceMut(r, c, o) ==
    [r EXCEPT !.calls = @ \o <<[rcvr |-> c.rcvr, mt |-> c.mt], [rcvr |-> c.rcvr, mt |-> c.mt]>>,
              !.ret = o.ret]
Invoke(r, c, o) ==
    [r EXCEPT !.calls = Append(@, [rcvr |-> c.rcvr, mt |-> c.mt]), !.ret = o.ret]

\* serve(ctx)
serve(e, o) ==
    LET r1 == [e.r EXCEPT !.serves = @ + 1, !.decodes = @ + 1]
    IN IF ~o.decode
       THEN [c |-> e.c, r |-> [r1 EXCEPT !.fail = "decode"],
             err |-> Error(500, "unable to encode response")]
       ELSE LET c2 == [e.c EXCEPT !.RespMetadata = MapSetAll(@, o.meta)]
                r2 == Invoke(r1, e.c, o)
            IN IF o.ret # NilErr
               THEN [c |-> c2, r |-> r2, err |-> o.ret]
               ELSE serveReply([c |-> c2, r |-> r2, err |-> NilErr], o)

\* The handler chain from its i-th handler on; past the last handler the
\* next step is serve.  A handler either calls the next step and returns its
\* error ("next"), calls it and returns an error of its own ("nextErr"),
\* returns an error without calling it ("abort") or returns nil without
\* calling it ("skip").
RECURSIVE RunChain(_, _, _)
RunChain(i, e, o) ==
    IF i > Len(e.c.handlers) THEN serve(e, o)
    ELSE LET e1 == [e EXCEPT !.r.mwRun = Append(@, e.c.handlers[i])]
         IN CASE o.mw[i] = "next" -> RunChain(i + 1, e1, o)
              [] o.mw[i] = "nextErr" ->
                   [RunChain(i + 1, e1, o) EXCEPT !.err = o.mwErr, !.r.mwErr = TRUE]
              [] o.mw[i] = "abort" -> [e1 EXCEPT !.err = o.mwErr, !.r.mwErr = TRUE]
              [] OTHER -> [e1 EXCEPT !.err = NilErr]

\* the status respError writes for err
StatusOf(err) == IF err.kind = "Errors" THEN err.status ELSE 500

\* respError(err, ctx)
respError(err, e) ==
    LET audit == [serviceID |-> e.c.ServiceID, service |-> e.c.ServiceName,
                  method |-> e.c.MethodName, status |-> StatusOf(err), err |-> err]
    IN [c |-> MarkSent(e.c),
        r |-> Write(WriteHeader([e.r EXCEPT !.audits = Append(@, audit)], StatusOf(err)),
                    Str(err.msg)),
        err |-> err]

\* ServeHTTP's test before respError: err != nil && !ctx.isResp
NeedsRespErrorMut(err, c) == err # NilErr
NeedsRespError(err, c) == err # NilErr /\ ~c.isResp

----------------------------------------------------------------------------
(* ServeHTTP *)

\* ServeHTTP, serve and respError read the fields of the Server
\* (server.serviceMap, s.handlers, server.encoder, server.snappy) and assign
\* only fields of ctx and the response
ServerSnappyClearedMut == snappy' = FALSE /\ UNCHANGED <<serviceMap, registry, encoder>>
ServerRead == UNCHANGED srvVars

\* req.Method != "POST"
NotPostMut(m) == m = "POST"
NotPost(m) == m # "POST"

\* serviceName == "" || methodName == ""
MissingSegmentMut(serviceName, methodName) == serviceName = <<>> /\ methodName = <<>>
MissingSegment(serviceName, methodName) == serviceName = <<>> \/ methodName = <<>>

\* for name, vals := range req.Header { ctx.ReqMetadata[name] = vals[0] }
CopyHeader(c, h) ==
    [c EXCEPT !.ReqMetadata = MapSetAll(@, [k \in DOMAIN h |-> h[k][1]])]

\* server.pool.Get(): a context the pool holds, or when it holds none a new
\* one from pool.New
PoolGet(p) ==
    IF p # {} THEN p
    ELSE { id \in CtxIds : ~ctxs[id].live /\ \A j \in CtxIds : ~ctxs[j].live => id <= j }

\* the pool after Get returned the context c of it
PoolKeepsMut(p, c) == p
PoolTake(p, c) == p \ {c}

\* ServeHTTP up to the dispatch: the 405 and 404 exits, pool.Get, the copy of
\* the headers, the lookups and the fields of ctx set for the request
ServeHTTPBegin(w, m, p, h) ==
    /\ phase = "serving"
    /\ rq[w].pc = "idle"
    /\ nreq < MaxRequests
    /\ nreq' = nreq + 1
    /\ LET r0 == [IdleReq EXCEPT !.method = m, !.path = p, !.header = h]
           serviceName == getServiceMethod(p)[1]
           methodName == getServiceMethod(p)[2]
       IN IF NotPost(m)
          THEN /\ rq' = [rq EXCEPT ![w] =
                   [Write(WriteHeader(HeaderSet(r0, "Content-Type",
                                                "text/plain; charset=utf-8"), 405),
                          Str("405 must POST\n")) EXCEPT !.pc = "done"]]
               /\ UNCHANGED <<pool, ctxs>>
          ELSE IF MissingSegment(serviceName, methodName)
          THEN /\ rq' = [rq EXCEPT ![w] =
                   [Write(WriteHeader(r0, 404), Str("rpc: can't find service or method"))
                      EXCEPT !.pc = "done"]]
               /\ UNCHANGED <<pool, ctxs>>
          ELSE \E id \in PoolGet(pool) :
               LET c0 == IF id \in pool THEN ctxs[id] ELSE NewCtx
                   c1 == CopyHeader(c0, h)
                   r1 == [r0 EXCEPT !.ctx = id, !.recycled = (id \in pool)]
                   store(c) == [ctxs EXCEPT ![id] = c]
               IN /\ pool' = PoolTake(pool, id)
                  /\ IF serviceName \notin DOMAIN serviceMap
                     THEN /\ rq' = [rq EXCEPT ![w] =
                                [Write(WriteHeader(r1, 404),
                                       Str("rpc: can't find service ") \o serviceName)
                                   EXCEPT !.pc = "done"]]
                          /\ ctxs' = store(c1)
                     ELSE IF methodName \notin serviceMap[serviceName].method
                     THEN /\ rq' = [rq EXCEPT ![w] =
                                [Write(WriteHeader(r1, 404),
                                       Str("rpc: can't find method ") \o methodName)
                                   EXCEPT !.pc = "done"]]
                          /\ ctxs' = store(c1)
                     ELSE LET s == serviceMap[serviceName]
                          IN /\ ctxs' = store([c1 EXCEPT
                                    !.handlers = s.handlers,
                                    !.mt = <<serviceName, methodName>>,
                                    !.rcvr = s.rcvr,
                                    !.encoder = encoder,
                                    !.snappy = snappy,
                                    !.ServiceID = s.id,
                                    !.ServiceName = serviceName,
                                    !.MethodName = methodName])
                             /\ rq' = [rq EXCEPT ![w] = [r1 EXCEPT !.pc = "dispatch"]]
    /\ ServerRead
    /\ UNCHANGED <<fn, phase, regCalls, deregCalls, tasks>>

\* if len(s.handlers) > 0 { err = s.handlers[0](ctx, w, req) } else { err = serve(ctx) }
DispatchAlsoServesMut(e, o) ==
    serve(IF Len(e.c.handlers) > 0 THEN RunChain(1, e, o) ELSE e, o)
Dispatch(e, o) ==
    IF Len(e.c.handlers) > 0 THEN RunChain(1, e, o) ELSE serve(e, o)

\* ServeHTTP from the dispatch on: the first handler of the service, or serve,
\* respError on the error returned, and server.pool.Put(ctx).  All of it works
\* on the context the request holds and on the request's own response.
ServeHTTPDispatch(w, o) ==
    /\ rq[w].pc = "dispatch"
    /\ LET id == rq[w].ctx
           e0 == [c |-> ctxs[id], r |-> rq[w], err |-> NilErr]
           e1 == Dispatch(e0, o)
           e2 == IF NeedsRespError(e1.err, e1.c) THEN respError(e1.err, e1)
                 ELSE e1
       IN /\ ctxs' = [ctxs EXCEPT ![id] = e2.c]
          /\ rq' = [rq EXCEPT ![w] =
                       [e2.r EXCEPT !.pc = "done", !.err = e1.err, !.puts = @ + 1]]
          /\ tasks' = tasks + Len(e2.r.audits)
          /\ pool' = pool \cup {id}
    /\ ServerRead
    /\ UNCHANGED <<fn, phase, regCalls, deregCalls, nreq>>

\* ServeHTTP has returned; the worker is free for the next request.  A context
\* that was not put back is referenced by nothing any more.
ServeHTTPReturn(w) ==
    /\ rq[w].pc = "done"
    /\ rq' = [rq EXCEPT ![w] = IdleReq]
    /\ ctxs' = [id \in CtxIds |->
                  IF id = rq[w].ctx /\ id \notin pool
                      /\ \A v \in Workers \ {w} : rq[v].ctx # id
                  THEN Garbage ELSE ctxs[id]]
    /\ ServerRead
    /\ UNCHANGED <<fn, phase, regCalls, deregCalls, pool, tasks, nreq>>

\* the garbage collector empties the pool (sync.Pool keeps nothing for sure)
PoolDrop ==
    /\ pool # {}
    /\ pool' = {}
    /\ ctxs' = [id \in CtxIds |->
                  IF id \in pool /\ \A v \in Workers : rq[v].ctx # id
                  THEN Garbage ELSE ctxs[id]]
    /\ UNCHANGED <<fn, phase, srvVars, regCalls, deregCalls, rq, tasks, nreq>>

\* a detached `go ctx.logError(...)` task runs defaulLogErr, which only logs
LogErrorRun ==
    /\ tasks > 0
    /\ tasks' = tasks - 1
    /\ UNCHANGED <<fn, phase, srvVars, regCalls, deregCalls, pool, ctxs, rq, nreq>>

\* The collaborators' results in the runs with concurrent requests
ConcOutcomes(n) ==
    { o \in Outcomes(n) :
        /\ o.meta = EmptyMap /\ o.build = "ok"
        /\ o.ret # PlainError("boom")
        /\ \A i \in 1..n : o.mw[i] \in {"next", "abort"} }

ConcPaths == { <<"/", "a", "/", "m", "/">>, <<"/", "c", "/", "m">> }

Setup ==
    \/ \E e \in BOOLEAN : Snappy(e)
    \/ \E r \in Registries : Registry(r)
    \/ \E enc \in Encoders : Encoder(enc)
    \/ \E k \in ServiceKeys : Service(k)
    \/ \E addr \in Addrs : Run(addr)
    \/ Shutdown

\* one request at a time
Next ==
    \/ Setup
    \/ \E w \in SeqWorkers, m \in HttpMethods, p \in Paths, h \in Headers :
         ServeHTTPBegin(w, m, p, h)
    \/ \E w \in SeqWorkers :
         \E o \in Outcomes(IF rq[w].pc = "dispatch" THEN Len(ctxs[rq[w].ctx].handlers) ELSE 0) :
           ServeHTTPDispatch(w, o)
    \/ \E w \in SeqWorkers : ServeHTTPReturn(w)
    \/ PoolDrop
    \/ LogErrorRun

Spec == Init /\ [][Next]_vars

\* requests served concurrently by the workers
NextConc ==
    \/ Setup
    \/ \E w \in Workers, p \in ConcPaths : ServeHTTPBegin(w, "POST", p, EmptyMap)
    \/ \E w \in Workers :
         \E o \in ConcOutcomes(IF rq[w].pc = "dispatch" THEN Len(ctxs[rq[w].ctx].handlers) ELSE 0) :
           ServeHTTPDispatch(w, o)
    \/ \E w \in Workers : ServeHTTPReturn(w)
    \/ PoolDrop
    \/ LogErrorRun

SpecConc == Init /\ [][NextConc]_vars

----------------------------------------------------------------------------
(* The gogoproto codec and the calls of single functions *)

MaxBody == 2     \* bytes (wire tokens) a reader delivers
MaxPath == 6     \* characters of a URL path

serverVars == <<phase, serviceMap, snappy, registry, encoder, regCalls, deregCalls,
                pool, ctxs, rq, tasks, nreq>>

\* Protobuf wire data are sequences of tokens; an encoding is a sequence of
\* (tag, value) pairs, so data cut after a tag are not an encoding.
Tokens == {"tag", "val"}
Bytes == UNION { [1..k -> Tokens] : k \in 0..MaxBody }
WireValid(b) ==
    /\ Len(b) % 2 = 0
    /\ \A i \in 1..Len(b) : b[i] = IF i % 2 = 1 THEN "tag" ELSE "val"

\* The values handed to the codec: a message, a message with a required
\* field that is not set, and a value that is no proto.Message
Values == {"msg", "required", "notmsg"}

\* pb, ok := v.(proto.Message): pb is the nil interface when ok is false
TypeAssert(v) == IF v \in {"msg", "required"} THEN v ELSE "nil"

\* proto.Marshal(pb)
protoMarshal(pb) ==
    IF pb = "nil" THEN [data |-> <<>>, err |-> "proto: Marshal called with nil"]
    ELSE IF pb = "required"
    THEN [data |-> <<>>, err |-> "proto: required field not set"]
    ELSE [data |-> <<"tag", "val">>, err |-> "nil"]

\* what proto.Unmarshal does with the nil interface: pb.Reset() panics, or the
\* library reports the nil message
NilUnmarshal == {"panic", "proto: Unmarshal called with nil"}

\* proto.Unmarshal(buf, pb)
protoUnmarshal(buf, pb, nilpb) ==
    IF pb = "nil" THEN nilpb
    ELSE IF ~WireValid(buf) THEN "proto: bad wire format"
    ELSE IF pb = "required" /\ buf = <<>> THEN "proto: required field not set"
    ELSE "nil"

\* GoGoProtoEncoder.Encode(w, v); w tells whether the writer takes the data
GoGoProtoEncode(w, v) ==
    LET pb == TypeAssert(v)
        m == protoMarshal(pb)
    IN IF m.err # "nil"
       THEN [err |-> m.err, out |-> <<>>, protoCalls |-> <<pb>>]
       ELSE IF w = "ok"
       THEN [err |-> "nil", out |-> m.data, protoCalls |-> <<pb>>]
       ELSE [err |-> "write: broken pipe", out |-> <<>>, protoCalls |-> <<pb>>]

\* GoGoProtoEncoder.Decode(r, v); r is what the reader delivers: the bytes
\* buf.ReadFrom(r) appended to the buffer and whether the read failed
GoGoProtoDecode(r, v, nilpb) ==
    LET buf == r.data
        pb == TypeAssert(v)
    IN [err |-> protoUnmarshal(buf, pb, nilpb), out |-> <<>>, protoCalls |-> <<pb>>]

\* GoGoProtoEncoder.Marshal(v)
GoGoProtoMarshal(v) ==
    LET pb == TypeAssert(v)
        m == protoMarshal(pb)
    IN [err |-> m.err, out |-> m.data, protoCalls |-> <<pb>>]

\* GoGoProtoEncoder.Unmarshal(data, v)
GoGoProtoUnmarshal(data, v, nilpb) ==
    LET pb == TypeAssert(v)
    IN [err |-> protoUnmarshal(data, pb, nilpb), out |-> <<>>, protoCalls |-> <<pb>>]

\* URL paths
PathChars == {"/", "a", "b", "c"}
UrlPaths == UNION { [1..k -> PathChars] : k \in 0..MaxPath }

Pending == [err |-> "pending"]

\* the calls under study, before they are made
CallInputs ==
    { [op |-> "getServiceMethod", s |-> s, res |-> Pending] : s \in UrlPaths }
    \cup { [op |-> "Encode", w |-> w, v |-> v, res |-> Pending] :
             w \in {"ok", "closed"}, v \in Values }
    \cup { [op |-> "Decode", r |-> [data |-> d, failed |-> f], v |-> v,
            nilpb |-> n, res |-> Pending] :
             d \in Bytes, f \in BOOLEAN, v \in Values, n \in NilUnmarshal }
    \cup { [op |-> "Marshal", v |-> v, res |-> Pending] : v \in Values }
    \cup { [op |-> "Unmarshal", data |-> d, v |-> v, nilpb |-> n, res |-> Pending] :
             d \in Bytes, v \in Values, n \in NilUnmarshal }

InitCalls ==
    /\ ServerInit
    /\ fn \in CallInputs

getServiceMethodCall ==
    /\ fn.op = "getServiceMethod" /\ fn.res = Pending
    /\ LET sm == getServiceMethod(fn.s)
       IN fn' = [fn EXCEPT !.res = [service |-> sm[1], method |-> sm[2],
                                    notFound |-> MissingSegment(sm[1], sm[2])]]
    /\ UNCHANGED serverVars

EncodeCall ==
    /\ fn.op = "Encode" /\ fn.res = Pending
    /\ fn' = [fn EXCEPT !.res = GoGoProtoEncode(fn.w, fn.v)]
    /\ UNCHANGED serverVars

DecodeCall ==
    /\ fn.op = "Decode" /\ fn.res = Pending
    /\ fn' = [fn EXCEPT !.res = GoGoProtoDecode(fn.r, fn.v, fn.nilpb)]
    /\ UNCHANGED serverVars

MarshalCall ==
    /\ fn.op = "Marshal" /\ fn.res = Pending
    /\ fn' = [fn EXCEPT !.res = GoGoProtoMarshal(fn.v)]
    /\ UNCHANGED serverVars

UnmarshalCall ==
    /\ fn.op = "Unmarshal" /\ fn.res = Pending
    /\ fn' = [fn EXCEPT !.res = GoGoProtoUnmarshal(fn.data, fn.v, fn.nilpb)]
    /\ UNCHANGED serverVars

NextCalls ==
    \/ getServiceMethodCall
    \/ EncodeCall
    \/ DecodeCall
    \/ MarshalCall
    \/ UnmarshalCall

SpecCalls == InitCalls /\ [][NextCalls]_vars

----------------------------------------------------------------------------
(* Properties *)

Done(w) == rq[w].pc = "done"

ServiceOf(r) == getServiceMethod(r.path)[1]
MethodOf(r) == getServiceMethod(r.path)[2]

\* the request is a POST to a registered method of a registered service
Routed(r) ==
    /\ r.method = "POST"
    /\ ServiceOf(r) \in DOMAIN serviceMap
    /\ MethodOf(r) \in serviceMap[ServiceOf(r)].method

\* the one invocation a routed request is to make
TheCall(r) ==
    [rcvr |-> serviceMap[ServiceOf(r)].rcvr, mt |-> <<ServiceOf(r), MethodOf(r)>>]

\* the body of the success response to a routed request
ReplyBody(r) ==
    IF snappy THEN SnappyEncode(Marshal(Reply(TheCall(r).rcvr, TheCall(r).mt)))
    ELSE Encode(Reply(TheCall(r).rcvr, TheCall(r).mt))

\* the response written for an error
ErrorResponse(err) == <<[status |-> StatusOf(err), body |-> Str(err.msg)]>>

\* C1 as stated: a routed POST whose body decodes and whose chain reaches core
\* dispatch invokes exactly its method, once, and when the method returns no
\* error the response is 200 followed by the encoded reply.  (Stated for the
\* compressed path, where the reply is marshaled before anything is written.)
C1_AsStated ==
    \A w \in Workers :
      (Done(w) /\ Routed(rq[w]) /\ rq[w].serves > 0 /\ rq[w].fail # "decode"
         /\ snappy) =>
        /\ rq[w].calls = <<TheCall(rq[w])>>
        /\ rq[w].ret = NilErr =>
             rq[w].writes = <<[status |-> 200, body |-> ReplyBody(rq[w])]>>

\* C1, amended: a routed POST whose body decodes and whose chain reaches core
\* dispatch invokes exactly its method, once; when the method returns no error
\* and marshaling, compressing and encoding the reply all succeed, the response
\* is 200 followed by the encoded reply.  This holds with a recycled context too.
C1_Dispatch ==
    \A w \in Workers :
      (Done(w) /\ Routed(rq[w]) /\ rq[w].serves > 0 /\ rq[w].fail # "decode") =>
        /\ rq[w].calls = <<TheCall(rq[w])>>
        /\ (rq[w].ret = NilErr /\ rq[w].fail = "") =>
             rq[w].writes = <<[status |-> 200, body |-> ReplyBody(rq[w])]>>

\* a request served with a recycled context invoked its
\* method and got 200 with the encoded reply
C1_Witness ==
    \E w \in Workers :
      /\ Done(w) /\ Routed(rq[w]) /\ rq[w].recycled
      /\ rq[w].calls = <<TheCall(rq[w])>>
      /\ rq[w].ret = NilErr /\ rq[w].fail = ""
      /\ rq[w].writes = <<[status |-> 200, body |-> ReplyBody(rq[w])]>>

\* C2: when the invoked method returns a non-nil error (and no middleware
\* replaces it) the response is the error's status, or 500, with the error's
\* message as body, and nothing of the reply is written.
C2_ErrorResponse ==
    \A w \in Workers :
      (Done(w) /\ rq[w].ret # NilErr /\ ~rq[w].mwErr) =>
        rq[w].writes = ErrorResponse(rq[w].ret)

\* C3: at most one response write per request.
C3_OneWrite ==
    \A w \in Workers : Len(rq[w].writes) <= 1

\* serve wrote the response, then a middleware returned an error, and respError
\* did not write again
C3_Witness ==
    \E w \in Workers :
      /\ Done(w) /\ rq[w].serves = 1 /\ rq[w].err # NilErr
      /\ Len(rq[w].writes) = 1 /\ rq[w].writes[1].status = 200

\* C4: a context acquired by ServeHTTP has been put back when ServeHTTP returns.
C4_Released ==
    \A w \in Workers : (Done(w) /\ rq[w].ctx # 0) => rq[w].puts = 1

\* C5: when dispatch begins with a recycled context, its request metadata is
\* exactly the first values of the request's headers, its response metadata is
\* empty and its response-sent flag is false.
C5_NoLeak ==
    \A w \in Workers :
      (rq[w].pc = "dispatch" /\ rq[w].recycled) =>
        LET c == ctxs[rq[w].ctx]
        IN /\ c.ReqMetadata = [k \in DOMAIN rq[w].header |-> rq[w].header[k][1]]
           /\ c.RespMetadata = EmptyMap
           /\ ~c.isResp

\* the request holds a context: it got one and has not put it back
Holds(w) == rq[w].ctx # 0 /\ rq[w].puts = 0

\* C6: a context held by a request is not in the pool and is held by no other
\* request, and a request puts its context back at most once.
C6_Exclusive ==
    \A w \in Workers :
      /\ rq[w].puts <= 1
      /\ Holds(w) =>
           /\ rq[w].ctx \notin pool
           /\ ctxs[rq[w].ctx].live
           /\ \A v \in Workers \ {w} : Holds(v) => rq[v].ctx # rq[w].ctx

\* two requests in flight at once, one of them with a recycled context, each
\* with a context of its own
C6_Witness ==
    \E w, v \in Workers :
      /\ w # v /\ rq[w].pc = "dispatch" /\ rq[v].pc = "dispatch"
      /\ rq[w].recycled /\ rq[w].ctx # rq[v].ctx

\* C7: a routed request whose decode fails, whose method returns an error or
\* whose reply fails to marshal, compress or encode (no middleware returning an
\* error of its own) spawns exactly one audit task, with the status written in
\* the response.
C7_Audit ==
    \A w \in Workers :
      (Done(w) /\ Routed(rq[w]) /\ ~rq[w].mwErr
         /\ (rq[w].fail # "" \/ rq[w].ret # NilErr)) =>
        /\ Len(rq[w].audits) = 1
        /\ Len(rq[w].writes) = 1
        /\ rq[w].audits[1].status = rq[w].writes[1].status
        /\ rq[w].audits[1].serviceID = serviceMap[ServiceOf(rq[w])].id
        /\ rq[w].audits[1].service = ServiceOf(rq[w])
        /\ rq[w].audits[1].method = MethodOf(rq[w])

\* the services in the registry
NServices == Cardinality(DOMAIN serviceMap)

\* C8: with a collaborator, start has made exactly one Register call per
\* service with its id and name and stop exactly one Deregister call per
\* service with its name and id, whatever the calls returned; without one,
\* neither makes a call.
C8_Discovery ==
    /\ phase = "setup" => regCalls = EmptyBag
    /\ phase # "stopped" => deregCalls = EmptyBag
    /\ (phase # "setup" /\ registry = "nil") => regCalls = EmptyBag
    /\ (phase = "stopped" /\ registry = "nil") => deregCalls = EmptyBag
    /\ (phase # "setup" /\ registry # "nil") =>
         /\ BagCardinality(regCalls) = NServices
         /\ \A n \in DOMAIN serviceMap :
              \E c \in BagToSet(regCalls) :
                c.node.Id = serviceMap[n].id /\ c.node.Name = n
    /\ (phase = "stopped" /\ registry # "nil") =>
         /\ BagCardinality(deregCalls) = NServices
         /\ \A n \in DOMAIN serviceMap :
              \E c \in BagToSet(deregCalls) :
                c.id = serviceMap[n].id /\ c.name = n

\* two services, a collaborator whose calls for one of them failed, and all
\* four calls made
C8_Witness ==
    /\ phase = "stopped" /\ registry # "nil" /\ NServices = 2
    /\ BagCardinality(regCalls) = 2 /\ BagCardinality(deregCalls) = 2
    /\ \E c \in BagToSet(regCalls) : c.err # NilErr
    /\ \E c \in BagToSet(deregCalls) : c.err # NilErr

\* C9: a request that is not a POST gets 405 "405 must POST\n" whatever its
\* path; it acquires no context, runs no middleware and no method, decodes
\* nothing and spawns no audit task.
C9_MustPost ==
    \A w \in Workers :
      (Done(w) /\ rq[w].method # "POST") =>
        /\ rq[w].writes = <<[status |-> 405, body |-> Str("405 must POST\n")]>>
        /\ rq[w].ctx = 0 /\ rq[w].puts = 0
        /\ rq[w].mwRun = <<>> /\ rq[w].serves = 0 /\ rq[w].decodes = 0
        /\ rq[w].calls = <<>> /\ rq[w].audits = <<>>

\* a GET to a registered method was answered 405
C9_Witness ==
    \E w \in Workers :
      /\ Done(w) /\ rq[w].method = "GET" /\ Routed([rq[w] EXCEPT !.method = "POST"])
      /\ rq[w].writes[1].status = 405

\* C10: a POST with an empty service or method segment, to an unknown service
\* or to an unknown method of a known service gets 404 with the body of its
\* case, and no middleware, decode, method or audit task runs for it.
C10_NotFound ==
    \A w \in Workers :
      (Done(w) /\ rq[w].method = "POST" /\ ~Routed(rq[w])) =>
        /\ rq[w].writes =
             <<[status |-> 404,
                body |-> IF ServiceOf(rq[w]) = <<>> \/ MethodOf(rq[w]) = <<>>
                         THEN Str("rpc: can't find service or method")
                         ELSE IF ServiceOf(rq[w]) \notin DOMAIN serviceMap
                         THEN Str("rpc: can't find service ") \o ServiceOf(rq[w])
                         ELSE Str("rpc: can't find method ") \o MethodOf(rq[w])]>>
        /\ rq[w].mwRun = <<>> /\ rq[w].serves = 0 /\ rq[w].decodes = 0
        /\ rq[w].calls = <<>> /\ rq[w].audits = <<>>

\* a POST to an unknown method of a registered service was answered 404 with
\* the method's name, after a context had been acquired for it
C10_Witness ==
    \E w \in Workers :
      /\ Done(w) /\ rq[w].method = "POST" /\ rq[w].ctx # 0
      /\ rq[w].path = <<"/", "a", "/", "x">> /\ <<"a">> \in DOMAIN serviceMap
      /\ rq[w].writes = <<[status |-> 404, body |-> <<"rpc: can't find method ", "x">>]>>

\* C11: every response with status 200 carries the header Snappy: true exactly
\* when compression is enabled, and its body is the compressed marshaled reply
\* when compression is enabled and the stream-encoded reply otherwise; the
\* request body goes through one Decode and nothing else.
C11_SnappyResponse ==
    \A w \in Workers :
      Done(w) =>
        \A i \in 1..Len(rq[w].writes) :
          rq[w].writes[i].status = 200 =>
            /\ ("Snappy" \in DOMAIN rq[w].sentHdr[i]) <=> snappy
            /\ snappy => rq[w].sentHdr[i]["Snappy"] = "true"
            /\ rq[w].writes[i].body = ReplyBody(rq[w])
            /\ rq[w].decodes = 1

\* the context the request of worker w holds
CtxOf(w) == ctxs[rq[w].ctx]

\* every entry of the response metadata of w's context went out as a header
\* with every status written for w's request
RespMetadataSent(w) ==
    \A i \in 1..Len(rq[w].writes) :
      \A k \in DOMAIN CtxOf(w).RespMetadata :
        /\ k \in DOMAIN rq[w].sentHdr[i]
        /\ rq[w].sentHdr[i][k] = CtxOf(w).RespMetadata[k]

\* the first value of every inbound header is in the request metadata of w's
\* context
ReqMetadataCopied(w) ==
    \A k \in DOMAIN rq[w].header :
      /\ k \in DOMAIN CtxOf(w).ReqMetadata
      /\ CtxOf(w).ReqMetadata[k] = rq[w].header[k][1]

\* C12 as stated: for every request whose method ran, every entry of the
\* response metadata is an outbound header when the status and the body are
\* written, and the first value of every inbound header is in the request
\* metadata before the first middleware or the method runs.
C12_AsStated ==
    \A w \in Workers :
      /\ rq[w].pc = "dispatch" => ReqMetadataCopied(w)
      /\ (Done(w) /\ rq[w].calls # <<>>) => RespMetadataSent(w)

\* C12, amended: the first value of every inbound header is in the request
\* metadata when the dispatch starts, nothing of the chain or of the method
\* having run; and when the method returns no error, every entry of the
\* response metadata is an outbound header when the status is written.
C12_Metadata ==
    \A w \in Workers :
      /\ rq[w].pc = "dispatch" =>
           /\ ReqMetadataCopied(w)
           /\ rq[w].mwRun = <<>> /\ rq[w].calls = <<>>
      /\ (Done(w) /\ Routed(rq[w])) => ReqMetadataCopied(w)
      /\ (Done(w) /\ rq[w].calls # <<>> /\ rq[w].ret = NilErr) => RespMetadataSent(w)

\* a request with the header H1 had its method, which set R1, run with H1's
\* first value in the request metadata, and R1 went out with the status 200
C12_Witness ==
    \E w \in Workers :
      /\ Done(w) /\ rq[w].calls # <<>> /\ rq[w].ret = NilErr
      /\ ~rq[w].recycled
      /\ rq[w].header = Entry("H1", <<"v1", "v2">>)
      /\ CtxOf(w).ReqMetadata = Entry("H1", "v1")
      /\ CtxOf(w).RespMetadata = Entry("R1", "r1")
      /\ Len(rq[w].writes) = 1 /\ rq[w].writes[1].status = 200
      /\ rq[w].sentHdr[1]["R1"] = "r1"

\* C13: when the method returned no error and marshaling, compressing or
\* stream-encoding the reply fails (no middleware replacing the error), the
\* response is one status 500 with the failure's message as body, and the
\* failure is audited, whether compression is enabled or not.
C13_BuildFailure ==
    \A w \in Workers :
      (Done(w) /\ ~rq[w].mwErr /\ rq[w].fail \in {"marshal", "compress", "encode"}) =>
        /\ Len(rq[w].writes) = 1
        /\ rq[w].writes[1].status = 500
        /\ rq[w].writes[1].body # <<>>
        /\ Len(rq[w].audits) = 1

\* C14: when the codec fails to decode the request body, serve returns the
\* status-carrying error with code 500, the method is not invoked, no reply is
\* encoded, and (no middleware replacing the error) the response is status 500
\* with the error's message.
C14_DecodeFailure ==
    \A w \in Workers :
      (Done(w) /\ rq[w].fail = "decode" /\ ~rq[w].mwErr) =>
        /\ rq[w].err = Error(500, "unable to encode response")
        /\ rq[w].calls = <<>>
        /\ rq[w].writes = ErrorResponse(rq[w].err)

\* C15: for a routed request of a service with middleware, the first
\* middleware is the first thing run, core dispatch runs at most once and only
\* when every middleware of the chain was run (each called the next step), and
\* without core dispatch nothing is decoded, no method is invoked and no reply
\* is written; for a service without middleware, core dispatch runs once and
\* no middleware runs.
C15_Chain ==
    \A w \in Workers :
      (Done(w) /\ Routed(rq[w])) =>
        LET hs == serviceMap[ServiceOf(rq[w])].handlers
        IN /\ hs = <<>> => (rq[w].mwRun = <<>> /\ rq[w].serves = 1)
           /\ hs # <<>> =>
                /\ rq[w].mwRun # <<>> /\ rq[w].mwRun[1] = hs[1]
                /\ rq[w].serves <= 1
                /\ rq[w].serves = 1 => rq[w].mwRun = hs
           /\ rq[w].serves = 0 =>
                /\ rq[w].decodes = 0 /\ rq[w].calls = <<>>
                /\ \A i \in 1..Len(rq[w].writes) : rq[w].writes[i].status # 200

\* a request of service b, whose first middleware returned nil without
\* calling the next step, ended with neither the second middleware nor core
\* dispatch run and with no response written by the server
C15_Witness ==
    \E w \in Workers :
      /\ Done(w) /\ Routed(rq[w]) /\ ServiceOf(rq[w]) = <<"b">>
      /\ rq[w].mwRun = <<"h1">> /\ rq[w].err = NilErr
      /\ rq[w].serves = 0 /\ rq[w].calls = <<>> /\ rq[w].writes = <<>>

\* a call of the codec operation op has returned
Returned(op) == fn.op = op /\ fn.res # Pending

\* C16: gogoproto's Decode returns an error whenever reading the body from
\* the reader failed (the connection was closed early).
C16_ReadError ==
    (Returned("Decode") /\ fn.r.failed) => fn.res.err # "nil"

\* s without one leading slash, then without one trailing slash
Trimmed(s) ==
    LET a == IF s # <<>> /\ Head(s) = "/" THEN Tail(s) ELSE s
    IN IF a # <<>> /\ a[Len(a)] = "/" THEN SubSeq(a, 1, Len(a) - 1) ELSE a

HasSlash(s) == \E i \in 1..Len(s) : s[i] = "/"

\* C17: getServiceMethod(s) takes one leading and one trailing slash off s and
\* cuts the rest at its first slash: the service has no slash and service,
\* "/", method make up the rest; a rest without a slash gives two empty
\* strings; "/a/b/c" gives ("a", "b/c"); and the empty-segment test of
\* ServeHTTP is true exactly when one of the two is empty.
C17_Split ==
    Returned("getServiceMethod") =>
      LET t == Trimmed(fn.s)
      IN /\ HasSlash(t) =>
              /\ ~HasSlash(fn.res.service)
              /\ fn.res.service \o <<"/">> \o fn.res.method = t
         /\ ~HasSlash(t) => (fn.res.service = <<>> /\ fn.res.method = <<>>)
         /\ fn.s = <<"/", "a", "/", "b", "/", "c">> =>
              (fn.res.service = <<"a">> /\ fn.res.method = <<"b", "/", "c">>)
         /\ fn.res.notFound <=> (Len(fn.res.service) = 0 \/ Len(fn.res.method) = 0)

\* getServiceMethod("/a/b/c") has returned ("a", "b/c"), which is no routing
\* failure
C17_Witness ==
    /\ Returned("getServiceMethod")
    /\ fn.s = <<"/", "a", "/", "b", "/", "c">>
    /\ fn.res = [service |-> <<"a">>, method |-> <<"b", "/", "c">>, notFound |-> FALSE]

\* C18: each of Encode, Decode, Marshal and Unmarshal, given a value that is
\* no proto.Message, returns the error "does not proto message interface"
\* and makes no call of proto.Marshal or proto.Unmarshal.
C18_NotMessage ==
    \A op \in {"Encode", "Decode", "Marshal", "Unmarshal"} :
      (Returned(op) /\ fn.v = "notmsg") =>
        /\ fn.res.err = "does not proto message interface"
        /\ fn.res.protoCalls = <<>>

\* a request has been accepted by the listener
Accepted == nreq > 0 \/ \E w \in Workers : rq[w].pc # "idle"

\* C19: when a request has been accepted, start has made its Register call
\* for every service (if there is a discovery collaborator); Deregister calls
\* exist only once shutdown has been initiated, and each of them is for a
\* service whose Register call was made before.
C19_Lifecycle ==
    /\ (Accepted /\ registry # "nil") =>
         \A n \in DOMAIN serviceMap :
           \E c \in BagToSet(regCalls) : c.node.Id = serviceMap[n].id
    /\ Accepted => phase # "setup"
    /\ deregCalls # EmptyBag => phase = "stopped"
    /\ \A d \in BagToSet(deregCalls) :
         \E c \in BagToSet(regCalls) : c.node.Id = d.id /\ c.node.Name = d.name

\* requests were accepted after both services had been registered, and both
\* were deregistered at shutdown
C19_Witness ==
    /\ phase = "stopped" /\ nreq > 0 /\ registry # "nil"
    /\ BagCardinality(regCalls) = 2 /\ BagCardinality(deregCalls) = 2
    /\ \A d \in BagToSet(deregCalls) :
         \E c \in BagToSet(regCalls) : c.node.Id = d.id

====
